---- MODULE Spec2Model ----
(***************************************************************************)
(* Model of sagemaker_tensorflow_container/training.py: the TF_CONFIG      *)
(* topology builders, the train() orchestration of one host and the        *)
(* polling loop that waits for the master to go down.                      *)
(*                                                                         *)
(* Host names are the numbers 1..MaxHosts.  An address "host:port" is the  *)
(* record [host |-> h, port |-> p].  Python list positions are 0-based and *)
(* are kept 0-based in every task index.                                   *)
(***************************************************************************)
EXTENDS Integers, Sequences, FiniteSets, TLC

\* ---- bounds of the model ------------------------------------------------
MaxHosts == 3
MaxProbes == 2

\* ---- constants of the program -------------------------------------------
DEFAULT_PORT == 2222
PS_PORT == 2223
MWMS_PORT == 8890
PROBE_PORT == 2222

VARIABLES
    \* harness of the topology builders: the arguments and the outcome
    hosts, current_host, ps_task, called, result,
    \* train(env, cmd_args) on one host
    env,            \* the Environment object handed to train
    pc,             \* position of train's control flow
    tf_config,      \* local variable tf_config of train ("unbound" until assigned)
    env_vars,       \* what train adds to the environment of the entry point
    runner_type,    \* runner variant handed to entry_point.run
    ps_process,     \* the parameter-server process started by _run_ps
    worker,         \* the entry-point (worker/master) process
    raised,         \* exception that left train, "none" when none
    history,        \* launches and starts, in the order they happened
    \* _wait_until_master_is_down and the endpoint it probes
    master,         \* master endpoint: "starting", "up" or "down"
    probe_target,   \* the address handed to curl, NoTarget before the loop starts
    probes,         \* curl calls made so far
    ok_probes,      \* curl calls that connected
    sleeps,         \* time.sleep(10) calls made so far
    \* _log_model_missing_warning(MODEL_DIR), called by main after train
    tree,           \* the directories under MODEL_DIR, in the order os.walk yields them
    walk_pos,       \* index in tree of the directory os.walk yields next, 0 when idle
    file_exists,    \* local variable file_exists
    pb_file_exists, \* local variable pb_file_exists
    warnings,       \* the logger.warn calls made so far, in order
    exit_status,    \* how main ends: "pending" until the check returns
    \* the hosts of one job, each running train with the parameter-server strategy
    cluster_hosts,  \* env.hosts, the same list on every host
    host_pc,        \* position of train on each host
    host_tf_config, \* tf_config built by train on each host
    ps_running,     \* whether _run_ps has started the parameter server of a host
    training        \* the entry-point process of each host

topo_vars == <<hosts, current_host, ps_task, called, result>>
train_vars == <<env, pc, tf_config, env_vars, runner_type, ps_process, worker,
                raised, history>>
wait_vars == <<master, probe_target, probes, ok_probes, sleeps>>
dir_vars == <<tree, walk_pos, file_exists, pb_file_exists, warnings, exit_status>>
cluster_vars == <<cluster_hosts, host_pc, host_tf_config, ps_running, training>>
\* what neither the builders nor train on one host touch
other_vars == <<dir_vars, cluster_vars>>
vars == <<topo_vars, train_vars, wait_vars, other_vars>>

\* ---- host lists ---------------------------------------------------------
HostNames == 1..MaxHosts

Range(s) == {s[i] : i \in DOMAIN s}

\* ordered sequences of unique host names, 1 to MaxHosts long
HostLists ==
    UNION {{s \in [1..n -> HostNames] : \A i, j \in 1..n : i # j => s[i] # s[j]}
           : n \in 1..MaxHosts}

\* a 1-based list.index
list_index_one_based(s, x) ==
    IF \E i \in DOMAIN s : s[i] = x
    THEN CHOOSE i \in DOMAIN s : s[i] = x /\ \A j \in 1..(i - 1) : s[j] # x
    ELSE -1

\* list.index(x): 0-based position of the first x; -1 stands for the ValueError
\* that list.index raises when x is absent
list_index(s, x) ==
    IF \E i \in DOMAIN s : s[i] = x
    THEN (CHOOSE i \in DOMAIN s : s[i] = x /\ \A j \in 1..(i - 1) : s[j] # x) - 1
    ELSE -1

\* hosts[1:] written as hosts[0:]: the first host stays among the workers
rest_slice_keeps_first(s) == s

\* hosts[:1] and hosts[1:]
first_slice(s) == IF s = <<>> THEN <<>> ELSE <<s[1]>>
rest_slice(s) == IF s = <<>> THEN <<>> ELSE Tail(s)

\* ["{}:{}".format(host, port) for host in hosts]
host_addresses(hs, port) == [i \in DOMAIN hs |-> [host |-> hs[i], port |-> port]]

\* every host of a non-empty list taken for the master
is_host_master_any_host(hs, cur) == hs # <<>>

\* current_host == hosts[0]; hosts[0] of an empty list raises IndexError and is
\* never evaluated here on an empty list
is_host_master(hs, cur) == hs # <<>> /\ cur = hs[1]

Raise(kind, line) == [status |-> kind, line |-> line]

\* ---- _build_tf_config_for_ps --------------------------------------------
\* "ps" lists the workers only, leaving the master out
ps_cluster_ps_without_master(hs) ==
    LET masters == first_slice(hs)
        workers == rest_slice(hs)
        has_ps == Len(hs) > 1
        roles == {"master"} \cup (IF has_ps THEN {"ps"} ELSE {})
                            \cup (IF workers # <<>> THEN {"worker"} ELSE {})
    IN [r \in roles |->
          CASE r = "master" -> host_addresses(masters, DEFAULT_PORT)
            [] r = "ps" -> host_addresses(workers, PS_PORT)
            [] r = "worker" -> host_addresses(workers, DEFAULT_PORT)]

ps_cluster(hs) ==
    LET masters == first_slice(hs)
        workers == rest_slice(hs)
        has_ps == Len(hs) > 1
        roles == {"master"} \cup (IF has_ps THEN {"ps"} ELSE {})
                            \cup (IF workers # <<>> THEN {"worker"} ELSE {})
    IN [r \in roles |->
          CASE r = "master" -> host_addresses(masters, DEFAULT_PORT)
            [] r = "ps" -> host_addresses(hs, PS_PORT)
            [] r = "worker" -> host_addresses(workers, DEFAULT_PORT)]

\* the check "ps is None" of a ps task left out
build_tf_config_for_ps_unchecked(hs, cur, pst) ==
    LET workers == rest_slice(hs)
        cluster == ps_cluster(hs)
        Ok(type, index) ==
            [status |-> "ok", cluster |-> cluster, environment |-> "cloud",
             task |-> [index |-> index, type |-> type]]
    IN IF pst
       THEN IF list_index(hs, cur) < 0 THEN Raise("ValueError", 79)
            ELSE Ok("ps", list_index(hs, cur))
       ELSE IF is_host_master(hs, cur) THEN Ok("master", 0)
            ELSE IF list_index(workers, cur) < 0 THEN Raise("ValueError", 85)
            ELSE Ok("worker", list_index(workers, cur))

build_tf_config_for_ps(hs, cur, pst) ==
    LET workers == rest_slice(hs)
        ps_is_none == ~(Len(hs) > 1)
        cluster == ps_cluster(hs)
        Ok(type, index) ==
            [status |-> "ok", cluster |-> cluster, environment |-> "cloud",
             task |-> [index |-> index, type |-> type]]
    IN IF pst
       THEN IF ps_is_none THEN Raise("ValueError", 75)
            ELSE IF list_index(hs, cur) < 0 THEN Raise("ValueError", 79)
            ELSE Ok("ps", list_index(hs, cur))
       ELSE IF is_host_master(hs, cur) THEN Ok("master", 0)
            ELSE IF list_index(workers, cur) < 0 THEN Raise("ValueError", 85)
            ELSE Ok("worker", list_index(workers, cur))

\* ---- _build_tf_config_for_mwms ------------------------------------------
build_tf_config_for_mwms(hs, cur) ==
    LET workers == hs
        cluster == [r \in {"worker"} |-> host_addresses(workers, MWMS_PORT)]
    IN IF list_index(workers, cur) < 0 THEN Raise("ValueError", 111)
       ELSE [status |-> "ok", cluster |-> cluster, environment |-> "cloud",
             task |-> [index |-> list_index(workers, cur), type |-> "worker"]]

\* no address: the wait for the master has not been started
NoTarget == [host |-> 0, port |-> 0]

\* ---- idle values of the parts a specification does not exercise ----------
NoEnv == [hosts |-> <<>>]
TopoIdle ==
    /\ hosts = <<>> /\ current_host = 0 /\ ps_task = FALSE
    /\ called = "none" /\ result = [status |-> "none"]
TrainIdle ==
    /\ env = NoEnv /\ pc = "idle" /\ tf_config = [status |-> "unbound"]
    /\ env_vars = {} /\ runner_type = "none"
    /\ ps_process = [state |-> "none"] /\ worker = "none"
    /\ raised = "none" /\ history = <<>>
WaitIdle ==
    /\ master = "down" /\ probe_target = NoTarget
    /\ probes = 0 /\ ok_probes = 0 /\ sleeps = 0
DirIdle ==
    /\ tree = <<>> /\ walk_pos = 0 /\ file_exists = FALSE /\ pb_file_exists = FALSE
    /\ warnings = <<>> /\ exit_status = "idle"
ClusterIdle ==
    /\ cluster_hosts = <<>> /\ host_pc = <<>> /\ host_tf_config = <<>>
    /\ ps_running = <<>> /\ training = <<>>

\* ---- the topology builders called on every host list ---------------------
TopoInit ==
    /\ hosts \in HostLists
    /\ current_host \in HostNames
    /\ ps_task = FALSE
    /\ called = "none"
    /\ result = [status |-> "none"]
    /\ TrainIdle /\ WaitIdle /\ DirIdle /\ ClusterIdle

CallBuildPs ==
    /\ called = "none"
    /\ \E t \in BOOLEAN :
         /\ ps_task' = t
         /\ result' = build_tf_config_for_ps(hosts, current_host, t)
    /\ called' = "ps"
    /\ UNCHANGED <<hosts, current_host, train_vars, wait_vars, other_vars>>

CallBuildMwms ==
    /\ called = "none"
    /\ result' = build_tf_config_for_mwms(hosts, current_host)
    /\ called' = "mwms"
    /\ UNCHANGED <<hosts, current_host, ps_task, train_vars, wait_vars, other_vars>>

TopoNext == CallBuildPs \/ CallBuildMwms

SpecTopology == TopoInit /\ [][TopoNext]_vars

\* ---- the Environment handed to train --------------------------------------
SAGEMAKER_PARAMETER_SERVER_ENABLED == "sagemaker_parameter_server_enabled"
SAGEMAKER_DISTRIBUTED_DATAPARALLEL_ENABLED == "sagemaker_distributed_dataparallel_enabled"
SAGEMAKER_MULTI_WORKER_MIRRORED_STRATEGY_ENABLED ==
    "sagemaker_multi_worker_mirrored_strategy_enabled"
SAGEMAKER_MPI_ENABLED == "sagemaker_mpi_enabled"

ParameterNames ==
    {SAGEMAKER_PARAMETER_SERVER_ENABLED, SAGEMAKER_DISTRIBUTED_DATAPARALLEL_ENABLED,
     SAGEMAKER_MULTI_WORKER_MIRRORED_STRATEGY_ENABLED, SAGEMAKER_MPI_ENABLED}

InstanceGroups == {"group-1", "group-2"}

\* env.hosts is the full host list; env.distribution_hosts are the hosts of the
\* distribution instance groups, in host order
Environment(hs, cur, group_of, dist_groups, params) ==
    [hosts |-> hs,
     current_host |-> cur,
     current_instance_group |-> group_of[cur],
     distribution_instance_groups |-> dist_groups,
     distribution_hosts |-> SelectSeq(hs, LAMBDA h : group_of[h] \in dist_groups),
     additional_framework_parameters |-> params]

\* the flag alone, whatever the number of hosts
parameter_server_enabled_flag_only(e) ==
    e.additional_framework_parameters[SAGEMAKER_PARAMETER_SERVER_ENABLED]

\* train's locals computed from env (training.py lines 165-174, 179)
parameter_server_enabled(e) ==
    /\ e.additional_framework_parameters[SAGEMAKER_PARAMETER_SERVER_ENABLED]
    /\ Len(e.hosts) > 1
multi_worker_mirrored_strategy_enabled(e) ==
    e.additional_framework_parameters[SAGEMAKER_MULTI_WORKER_MIRRORED_STRATEGY_ENABLED]
sagemaker_distributed_dataparallel_enabled(e) ==
    e.additional_framework_parameters[SAGEMAKER_DISTRIBUTED_DATAPARALLEL_ENABLED]
mpi_enabled(e) == e.additional_framework_parameters[SAGEMAKER_MPI_ENABLED]
in_distribution_group(e) ==
    e.current_instance_group \in e.distribution_instance_groups

\* json.dumps(tf_config): the serialized text, told apart from the dict
json_dumps(config) == [json |-> config]

\* ---- train(env, cmd_args) on one host --------------------------------------
TrainInit ==
    /\ \E n \in 1..MaxHosts :
         \E cur \in 1..n, group_of \in [1..n -> InstanceGroups],
            params \in [ParameterNames -> BOOLEAN] :
           \* the distribution instance groups are groups of the job, at least one
           \E dist_groups \in (SUBSET {group_of[h] : h \in 1..n}) \ {{}} :
              env = Environment([i \in 1..n |-> i], cur, group_of, dist_groups, params)
    /\ pc = "start"
    /\ tf_config = [status |-> "unbound"]
    /\ env_vars = {}
    /\ runner_type = "none"
    /\ ps_process = [state |-> "none"]
    /\ worker = "none"
    /\ raised = "none"
    /\ history = <<>>
    /\ master = "starting"
    /\ probe_target = NoTarget
    /\ probes = 0 /\ ok_probes = 0 /\ sleeps = 0
    /\ TopoIdle /\ DirIdle /\ ClusterIdle

\* lines 165-192: the flags, env_vars and the setup phase
TrainSetup ==
    /\ pc = "start"
    /\ LET built ==
             IF in_distribution_group(env) /\ parameter_server_enabled(env)
             THEN build_tf_config_for_ps(env.distribution_hosts, env.current_host, FALSE)
             ELSE IF in_distribution_group(env)
                     /\ multi_worker_mirrored_strategy_enabled(env)
             THEN build_tf_config_for_mwms(env.distribution_hosts, env.current_host)
             ELSE [status |-> "unbound"]
       IN IF built.status \notin {"ok", "unbound"}
          THEN /\ raised' = built.status
               /\ pc' = "raised"
               /\ UNCHANGED <<tf_config, env_vars, runner_type>>
          ELSE /\ tf_config' = IF parameter_server_enabled(env) THEN built
                               ELSE [status |-> "unbound"]
               /\ env_vars' = IF ~parameter_server_enabled(env) /\ built.status = "ok"
                              THEN {[name |-> "TF_CONFIG", value |-> json_dumps(built)]}
                              ELSE {}
               /\ runner_type' = "ProcessRunnerType"
               /\ pc' = "run"
               /\ UNCHANGED raised
    /\ UNCHANGED <<env, ps_process, worker, history, topo_vars, other_vars, wait_vars>>

\* the job "ps" and the task index exist in the cluster handed to the server
server_def_in_cluster(cluster, job_name, task_index) ==
    /\ job_name \in DOMAIN cluster
    /\ task_index >= 0
    /\ task_index < Len(cluster[job_name])

\* lines 197-198 and _run_ps (116-130): tf_config["cluster"] is read, the server
\* is built for job "ps" and task env.hosts.index(env.current_host), and the
\* process joining it is started.  Whether tf.distribute.Server refuses a job
\* or task that its cluster does not hold is decided outside this repository:
\* `reactions` holds the answers it may give to such a request (TRUE: the
\* server is built all the same, FALSE: the constructor raises).
run_ps(reactions) ==
    /\ pc = "run"
    /\ parameter_server_enabled(env)
    /\ IF tf_config.status = "unbound"
       THEN /\ raised' = "UnboundLocalError"
            /\ pc' = "raised"
            /\ UNCHANGED <<ps_process, history>>
       ELSE LET cluster == tf_config.cluster
                task_index == list_index(env.hosts, env.current_host)
            IN \E accepted \in IF server_def_in_cluster(cluster, "ps", task_index)
                               THEN {TRUE} ELSE reactions :
                 IF accepted
                 THEN /\ ps_process' = [state |-> "running", cluster |-> cluster,
                                        job_name |-> "ps", task_index |-> task_index,
                                        gpu_count |-> 0]
                      /\ history' = Append(history, "ps")
                      /\ pc' = "ps_launched"
                      /\ UNCHANGED raised
                 ELSE /\ raised' = "ServerError"
                      /\ pc' = "raised"
                      /\ UNCHANGED <<ps_process, history>>
    /\ UNCHANGED <<env, tf_config, env_vars, runner_type, worker, topo_vars, other_vars, wait_vars>>

\* either reaction of the TensorFlow runtime
TrainRunPs == run_ps(BOOLEAN)

\* a TensorFlow runtime that refuses every job or task its cluster does not hold
TrainRunPsRefusing == run_ps({FALSE})

\* the worker is launched first and the parameter server never
TrainRunWorker_without_ps ==
    /\ pc = "run"
    /\ parameter_server_enabled(env)
    /\ tf_config.status = "ok"
    /\ env_vars' = {[name |-> "TF_CONFIG", value |-> json_dumps(tf_config)]}
    /\ worker' = "running"
    /\ history' = Append(history, "worker")
    /\ pc' = "worker"
    /\ UNCHANGED <<env, tf_config, runner_type, ps_process, raised, topo_vars, other_vars, wait_vars>>

\* the entry point is run without TF_CONFIG
TrainRunWorker_no_tf_config ==
    /\ pc = "ps_launched"
    /\ worker' = "running"
    /\ history' = Append(history, "worker")
    /\ pc' = "worker"
    /\ UNCHANGED <<env, tf_config, env_vars, runner_type, ps_process, raised,
                   topo_vars, other_vars, wait_vars>>

\* lines 199-200 and _run_worker (133-143): TF_CONFIG is set and the entry point
\* is run with the default runner
TrainRunWorker ==
    /\ pc = "ps_launched"
    /\ env_vars' = {[name |-> "TF_CONFIG", value |-> json_dumps(tf_config)]}
    /\ worker' = "running"
    /\ history' = Append(history, "worker")
    /\ pc' = "worker"
    /\ UNCHANGED <<env, tf_config, runner_type, ps_process, raised, topo_vars, other_vars, wait_vars>>

\* the data-parallel flag is looked at before the MPI flag
TrainRunEntryPoint_dataparallel_first ==
    /\ pc = "run"
    /\ ~parameter_server_enabled(env)
    /\ runner_type' =
          IF in_distribution_group(env)
             /\ sagemaker_distributed_dataparallel_enabled(env)
          THEN "SMDataParallelRunnerType"
          ELSE IF in_distribution_group(env) /\ mpi_enabled(env) THEN "MPIRunnerType"
          ELSE runner_type
    /\ worker' = "running"
    /\ history' = Append(history, "worker")
    /\ pc' = "worker"
    /\ UNCHANGED <<env, tf_config, env_vars, ps_process, raised, topo_vars, other_vars, wait_vars>>

\* lines 205-221: the runner variant is chosen and the entry point is run
TrainRunEntryPoint ==
    /\ pc = "run"
    /\ ~parameter_server_enabled(env)
    /\ runner_type' =
          IF in_distribution_group(env) /\ mpi_enabled(env) THEN "MPIRunnerType"
          ELSE IF in_distribution_group(env)
                  /\ sagemaker_distributed_dataparallel_enabled(env)
          THEN "SMDataParallelRunnerType"
          ELSE runner_type
    /\ worker' = "running"
    /\ history' = Append(history, "worker")
    /\ pc' = "worker"
    /\ UNCHANGED <<env, tf_config, env_vars, ps_process, raised, topo_vars, other_vars, wait_vars>>

\* a failed entry point is taken for a finished one
EntryPointReturns_swallows_failure ==
    /\ pc = "worker"
    /\ \E ok \in BOOLEAN :
         /\ worker' = IF ok THEN "completed" ELSE "failed"
         /\ pc' = IF parameter_server_enabled(env) THEN "after_worker" ELSE "returned"
         /\ UNCHANGED raised
    /\ UNCHANGED <<env, tf_config, env_vars, runner_type, ps_process, history,
                   topo_vars, other_vars, wait_vars>>

\* entry_point.run(..., capture_error=True) blocks until the entry point ends:
\* it returns when the process succeeded and raises when it failed; train
\* catches nothing (lines 137-143, 214-221)
EntryPointReturns ==
    /\ pc = "worker"
    /\ \E ok \in BOOLEAN :
         IF ok
         THEN /\ worker' = "completed"
              /\ pc' = IF parameter_server_enabled(env) THEN "after_worker"
                       ELSE "returned"
              /\ UNCHANGED raised
         ELSE /\ worker' = "failed"
              /\ raised' = "ExecuteUserScriptError"
              /\ pc' = "raised"
    /\ UNCHANGED <<env, tf_config, env_vars, runner_type, ps_process, history,
                   topo_vars, other_vars, wait_vars>>

\* the wait for the master is entered on every host
TrainAfterWorker_on_every_host ==
    /\ pc = "after_worker"
    /\ probe_target' = [host |-> env.hosts[1], port |-> PROBE_PORT]
    /\ history' = Append(history, "wait")
    /\ pc' = "probe"
    /\ UNCHANGED <<env, tf_config, env_vars, runner_type, ps_process, worker, raised,
                   topo_vars, other_vars, master, probes, ok_probes, sleeps>>

\* lines 202-203: the hosts other than env.hosts[0] wait for the master
TrainAfterWorker ==
    /\ pc = "after_worker"
    /\ IF ~is_host_master(env.hosts, env.current_host)
       THEN /\ probe_target' = [host |-> env.hosts[1], port |-> PROBE_PORT]
            /\ history' = Append(history, "wait")
            /\ pc' = "probe"
       ELSE /\ pc' = "returned"
            /\ UNCHANGED <<probe_target, history>>
    /\ UNCHANGED <<env, tf_config, env_vars, runner_type, ps_process, worker, raised,
                   topo_vars, other_vars, master, probes, ok_probes, sleeps>>

\* ---- _wait_until_master_is_down --------------------------------------------
\* the loop returns after its first connected probe
WaitProbe_returns_when_up ==
    /\ pc = "probe"
    /\ probes' = probes + 1
    /\ IF master = "up"
       THEN /\ ok_probes < MaxProbes
            /\ ok_probes' = ok_probes + 1
            /\ pc' = "returned"
       ELSE /\ pc' = "returned"
            /\ UNCHANGED ok_probes
    /\ UNCHANGED <<topo_vars, other_vars, env, tf_config, env_vars, runner_type, ps_process,
                   worker, raised, history, master, probe_target, sleeps>>

\* the loop gives up after one connected probe and one sleep
WaitProbe_with_timeout ==
    /\ pc = "probe"
    /\ probes' = probes + 1
    /\ IF master = "up" /\ sleeps = 0
       THEN /\ ok_probes < MaxProbes
            /\ ok_probes' = ok_probes + 1
            /\ pc' = "sleep"
       ELSE /\ pc' = "returned"
            /\ UNCHANGED ok_probes
    /\ UNCHANGED <<topo_vars, other_vars, env, tf_config, env_vars, runner_type, ps_process,
                   worker, raised, history, master, probe_target, sleeps>>

\* lines 148-152, 154-156: one curl of master:2222; connected, the loop goes on
\* to sleep; refused (CalledProcessError), the loop returns.  At most MaxProbes
\* probes connect.
WaitProbe ==
    /\ pc = "probe"
    /\ probes' = probes + 1
    /\ IF master = "up"
       THEN /\ ok_probes < MaxProbes
            /\ ok_probes' = ok_probes + 1
            /\ pc' = "sleep"
       ELSE /\ pc' = "returned"
            /\ UNCHANGED ok_probes
    /\ UNCHANGED <<topo_vars, other_vars, env, tf_config, env_vars, runner_type, ps_process,
                   worker, raised, history, master, probe_target, sleeps>>

\* line 153: time.sleep(10), then the next turn of the loop
WaitSleep ==
    /\ pc = "sleep"
    /\ sleeps' = sleeps + 1
    /\ pc' = "probe"
    /\ UNCHANGED <<topo_vars, other_vars, env, tf_config, env_vars, runner_type, ps_process,
                   worker, raised, history, master, probe_target, probes, ok_probes>>

\* the endpoint master:2222 starts to accept connections
MasterListens ==
    /\ master = "starting"
    /\ master' = "up"
    /\ UNCHANGED <<topo_vars, other_vars, train_vars, probe_target, probes, ok_probes, sleeps>>

\* the master's process exits; its endpoint refuses connections from then on
MasterExits ==
    /\ master \in {"starting", "up"}
    /\ master' = "down"
    /\ UNCHANGED <<topo_vars, other_vars, train_vars, probe_target, probes, ok_probes, sleeps>>

Next ==
    \/ TrainSetup
    \/ TrainRunPs
    \/ TrainRunWorker
    \/ TrainRunEntryPoint
    \/ EntryPointReturns
    \/ TrainAfterWorker
    \/ WaitProbe
    \/ WaitSleep
    \/ MasterListens
    \/ MasterExits

Spec == TrainInit /\ [][Next]_vars

\* the loop of _wait_until_master_is_down is a running program: its next step
\* is taken
FairSpec == Spec /\ WF_vars(WaitProbe) /\ WF_vars(WaitSleep)

\* ---- claims about the topology builders (SpecTopology) -------------------
Position(s, x) == CHOOSE i \in DOMAIN s : s[i] = x
HostsOf(addresses) == [i \in DOMAIN addresses |-> addresses[i].host]
PortsOf(addresses) == {addresses[i].port : i \in DOMAIN addresses}

\* C1: for a list of two or more unique hosts and a current host in it, the
\* parameter-server topology has exactly one master entry, the first host,
\* lists every host under "ps" in list order, gives a ps task the index of
\* the current host in the list, and over all current hosts these indices
\* are 0..len(hosts)-1, each used once.
C1_PsTopology ==
    (called = "ps" /\ Len(hosts) >= 2 /\ current_host \in Range(hosts)) =>
        /\ result.status = "ok"
        /\ HostsOf(result.cluster["master"]) = <<hosts[1]>>
        /\ HostsOf(result.cluster["ps"]) = hosts
        /\ ps_task =>
             /\ result.task = [index |-> Position(hosts, current_host) - 1,
                               type |-> "ps"]
             /\ {build_tf_config_for_ps(hosts, h, TRUE).task.index
                    : h \in Range(hosts)} = 0..(Len(hosts) - 1)
             /\ \A g, h \in Range(hosts) :
                    g # h => build_tf_config_for_ps(hosts, g, TRUE).task.index
                             # build_tf_config_for_ps(hosts, h, TRUE).task.index

C1_Witness ==
    /\ called = "ps" /\ ps_task /\ Len(hosts) >= 3
    /\ result.status = "ok" /\ result.task.index = 2

\* C2: for a single-host list a ps task fails with ValueError and returns no
\* topology; a non-ps task is master/0 and the cluster has neither "ps" nor
\* "worker".
C2_SingleHost ==
    (called = "ps" /\ Len(hosts) = 1) =>
        /\ ps_task => (result.status = "ValueError"
                       /\ "cluster" \notin DOMAIN result
                       /\ "task" \notin DOMAIN result)
        /\ (~ps_task /\ current_host \in Range(hosts)) =>
               /\ result.status = "ok"
               /\ result.task = [index |-> 0, type |-> "master"]
               /\ "ps" \notin DOMAIN result.cluster
               /\ "worker" \notin DOMAIN result.cluster

C2_Witness ==
    /\ called = "ps" /\ Len(hosts) = 1 /\ ps_task
    /\ current_host \in Range(hosts) /\ result.status = "ValueError"

\* C3: a non-ps task is master/0 on the first host and otherwise worker with
\* the position of the current host among the hosts without the first;
\* master and worker addresses use port 2222, ps addresses port 2223; hosts
\* [1,2,3] with current host 2 give the topology of scenario A.
C3_NonPsTask ==
    (called = "ps" /\ ~ps_task /\ current_host \in Range(hosts)) =>
        /\ result.status = "ok"
        /\ IF current_host = hosts[1]
           THEN result.task = [index |-> 0, type |-> "master"]
           ELSE result.task = [index |-> Position(hosts, current_host) - 2,
                               type |-> "worker"]
        /\ \A r \in DOMAIN result.cluster :
              PortsOf(result.cluster[r]) = {IF r = "ps" THEN 2223 ELSE 2222}
        /\ (hosts = <<1, 2, 3>> /\ current_host = 2) =>
              /\ DOMAIN result.cluster = {"master", "worker", "ps"}
              /\ result.cluster["master"] = <<[host |-> 1, port |-> 2222]>>
              /\ result.cluster["worker"] = <<[host |-> 2, port |-> 2222],
                                              [host |-> 3, port |-> 2222]>>
              /\ result.cluster["ps"] = <<[host |-> 1, port |-> 2223],
                                          [host |-> 2, port |-> 2223],
                                          [host |-> 3, port |-> 2223]>>
              /\ result.task = [index |-> 0, type |-> "worker"]

C3_Witness ==
    /\ called = "ps" /\ ~ps_task /\ hosts = <<1, 2, 3>> /\ current_host = 3
    /\ result.status = "ok" /\ result.task = [index |-> 1, type |-> "worker"]

\* C4: the multi-worker-mirrored topology has the single role "worker", which
\* lists every host once in list order at port 8890, and the task is worker
\* with the position of the current host in the full list.
C4_MwmsTopology ==
    (called = "mwms" /\ current_host \in Range(hosts)) =>
        /\ result.status = "ok"
        /\ DOMAIN result.cluster = {"worker"}
        /\ result.cluster["worker"] =
              [i \in DOMAIN hosts |-> [host |-> hosts[i], port |-> 8890]]
        /\ result.task = [index |-> Position(hosts, current_host) - 1,
                          type |-> "worker"]

C4_Witness ==
    /\ called = "mwms" /\ Len(hosts) >= 2 /\ current_host = hosts[2]
    /\ result.status = "ok" /\ result.task.index = 1

\* train under a TensorFlow runtime that refuses ill-formed server requests: the
\* behaviours of Spec in which no such request is accepted
NextRefusing ==
    \/ TrainSetup
    \/ TrainRunPsRefusing
    \/ TrainRunWorker
    \/ TrainRunEntryPoint
    \/ EntryPointReturns
    \/ TrainAfterWorker
    \/ WaitProbe
    \/ WaitSleep
    \/ MasterListens
    \/ MasterExits

SpecRefusing == TrainInit /\ [][NextRefusing]_vars

\* ---- claims about train and the wait for the master (Spec, FairSpec) -------
\* C5: with the parameter-server strategy active, the parameter-server process
\* is launched before the worker/master process, and the worker/master process
\* is never launched when the parameter-server launch did not happen.
C5_PsBeforeWorker ==
    (pc # "idle" /\ parameter_server_enabled(env)) =>
        /\ \A i \in DOMAIN history :
              history[i] = "worker" => \E j \in 1..(i - 1) : history[j] = "ps"
        /\ worker # "none" => ps_process.state = "running"

C5_Witness ==
    /\ pc = "worker" /\ parameter_server_enabled(env)
    /\ worker = "running" /\ ps_process.state = "running"
    /\ history = <<"ps", "worker">>

\* C6: the wait for the master is started only with the parameter-server
\* strategy active, on a host other than the master host env.hosts[0], and
\* after the local worker process has completed.
C6_WaitOnlyAfterWorker ==
    (pc # "idle" /\ (\/ pc \in {"probe", "sleep"}
                     \/ probe_target # NoTarget
                     \/ probes > 0
                     \/ "wait" \in Range(history))) =>
        /\ env.additional_framework_parameters["sagemaker_parameter_server_enabled"]
        /\ Len(env.hosts) > 1
        /\ env.current_host # env.hosts[1]
        /\ worker = "completed"

C6_Witness ==
    /\ pc = "probe" /\ probes = 0 /\ worker = "completed"
    /\ env.current_host = 2 /\ history = <<"ps", "worker", "wait">>

\* C7: when the first N probes connect and the next one is refused the loop
\* makes exactly N+1 probes: after each connected probe it sleeps once and
\* probes again, it never returns after a connected probe, and it returns at
\* the first refused probe.
C7_ProbeCount ==
    probe_target # NoTarget =>
        /\ pc \in {"probe", "sleep", "returned"}
        /\ pc = "probe" => (probes = ok_probes /\ sleeps = ok_probes)
        /\ pc = "sleep" => (probes = ok_probes /\ sleeps + 1 = ok_probes)
        /\ pc = "returned" => (probes = ok_probes + 1 /\ sleeps = ok_probes)

C7_Witness ==
    /\ probe_target # NoTarget /\ pc = "returned"
    /\ ok_probes = 2 /\ probes = 3 /\ sleeps = 2

\* C8: the loop has no timeout: it is left only by a probe that the master
\* refuses, however many probes connected before, and once the master is down
\* for good the loop returns.
C8_NoTimeout ==
    /\ [][(pc \in {"probe", "sleep"} /\ pc' \notin {"probe", "sleep"}) =>
            (pc = "probe" /\ master # "up" /\ pc' = "returned")]_vars
    /\ ((pc \in {"probe", "sleep"} /\ master = "down") ~> (pc = "returned"))

C8_Witness ==
    /\ pc = "sleep" /\ master = "up" /\ ok_probes = MaxProbes
    /\ probes = MaxProbes

\* the parameter-server task that _run_ps asks for is the slot of this host in
\* the "ps" list of the computed cluster
PsSlotIsThisHost ==
    /\ tf_config.status = "ok"
    /\ "ps" \in DOMAIN tf_config.cluster
    /\ \E i \in DOMAIN env.hosts :
          /\ env.hosts[i] = env.current_host
          /\ i \in DOMAIN tf_config.cluster["ps"]
          /\ tf_config.cluster["ps"][i].host = env.current_host

\* C9: an inconsistent configuration (the parameter-server strategy active
\* with a computed cluster that has no parameter servers, or no slot for this
\* host) is raised as an error before any process is launched: neither the
\* parameter-server nor the worker process is launched for it, and no
\* configuration error is raised after a launch.
C9_ConfigErrorBeforeLaunch ==
    pc # "idle" =>
        /\ (parameter_server_enabled(env)
            /\ (ps_process.state = "running" \/ worker # "none"))
              => PsSlotIsThisHost
        /\ raised \in {"ValueError", "UnboundLocalError", "ServerError"}
              => history = <<>>

\* C10: a failed worker/master entry point leaves train as an exception: train
\* does not return normally and the wait for the master is not started.
C10_WorkerFailurePropagates ==
    (pc # "idle" /\ worker = "failed") =>
        /\ pc = "raised"
        /\ raised = "ExecuteUserScriptError"
        /\ probe_target = NoTarget /\ probes = 0
        /\ "wait" \notin Range(history)

C10_Witness ==
    /\ worker = "failed" /\ pc = "raised"
    /\ env.additional_framework_parameters["sagemaker_parameter_server_enabled"]
    /\ Len(env.hosts) > 1 /\ env.current_host # env.hosts[1]

\* the parameter-server flag is set and the job has more than one host
PsFlagAndHosts ==
    /\ env.additional_framework_parameters["sagemaker_parameter_server_enabled"]
    /\ Len(env.hosts) > 1

\* train has gone into the parameter-server branch of its run phase
PsBranchTaken ==
    \/ "ps" \in Range(history)
    \/ pc \in {"ps_launched", "after_worker", "probe", "sleep"}
    \/ raised \in {"UnboundLocalError", "ServerError"}

\* C11: the parameter-server strategy is active exactly when the flag is set
\* and the job has more than one host; when it is active no multi-worker-
\* mirrored topology is injected whatever that flag says; with a single host
\* the parameter-server process is never launched.
C11_PsStrategyActive ==
    pc # "idle" =>
        /\ PsBranchTaken => PsFlagAndHosts
        /\ (PsFlagAndHosts /\ pc \notin {"start", "run"}) => PsBranchTaken
        /\ PsFlagAndHosts =>
              \A v \in env_vars :
                  /\ "master" \in DOMAIN v.value.json.cluster
                  /\ \A r \in DOMAIN v.value.json.cluster :
                        8890 \notin PortsOf(v.value.json.cluster[r])
        /\ Len(env.hosts) = 1 =>
              (ps_process.state = "none" /\ "ps" \notin Range(history))

C11_Witness ==
    /\ PsFlagAndHosts
    /\ env.additional_framework_parameters[
           "sagemaker_multi_worker_mirrored_strategy_enabled"]
    /\ worker = "running" /\ ps_process.state = "running"
    /\ env_vars # {}

\* the entry point was run by the branch of train without parameter servers
NonPsRun == pc # "idle" /\ ~PsFlagAndHosts /\ worker # "none"

\* C12 as stated: without the parameter-server strategy the runner is MPI when
\* the MPI flag is set, data-parallel when the data-parallel flag is set (and
\* the MPI flag is not), and the default process runner when neither is set.
C12_RunnerByFlags ==
    NonPsRun =>
        runner_type =
            IF env.additional_framework_parameters["sagemaker_mpi_enabled"]
            THEN "MPIRunnerType"
            ELSE IF env.additional_framework_parameters[
                        "sagemaker_distributed_dataparallel_enabled"]
            THEN "SMDataParallelRunnerType"
            ELSE "ProcessRunnerType"

\* C12 as amended: the flags choose the runner only on a host whose instance
\* group is one of the distribution instance groups; there MPI is chosen when
\* the MPI flag is set, data-parallel when only the data-parallel flag is set;
\* in every other case the default process runner is used.  Exactly one
\* variant is handed to the runner.
C12_RunnerByFlagsInGroup ==
    NonPsRun =>
        /\ runner_type \in {"MPIRunnerType", "SMDataParallelRunnerType",
                            "ProcessRunnerType"}
        /\ runner_type =
            IF env.current_instance_group \in env.distribution_instance_groups
               /\ env.additional_framework_parameters["sagemaker_mpi_enabled"]
            THEN "MPIRunnerType"
            ELSE IF env.current_instance_group \in env.distribution_instance_groups
                    /\ env.additional_framework_parameters[
                           "sagemaker_distributed_dataparallel_enabled"]
            THEN "SMDataParallelRunnerType"
            ELSE "ProcessRunnerType"

C12_Witness ==
    /\ NonPsRun
    /\ env.additional_framework_parameters["sagemaker_mpi_enabled"]
    /\ env.additional_framework_parameters[
           "sagemaker_distributed_dataparallel_enabled"]
    /\ env.current_instance_group \in env.distribution_instance_groups
    /\ runner_type = "MPIRunnerType"

\* C13: the environment handed to the worker carries TF_CONFIG exactly in two
\* cases: under the parameter-server strategy it is the serialized parameter-
\* server topology with this host's master or worker task; under the multi-
\* worker-mirrored strategy (flag set, no parameter-server strategy, host in a
\* distribution instance group) it is the serialized multi-worker-mirrored
\* topology; in every other run train adds no TF_CONFIG.
C13_TfConfigInjection ==
    (pc # "idle" /\ worker # "none") =>
        IF PsFlagAndHosts
        THEN \E v \in env_vars :
                /\ env_vars = {v}
                /\ v.name = "TF_CONFIG"
                /\ DOMAIN v.value = {"json"}
                /\ v.value.json = tf_config
                /\ LET topology == v.value.json
                   IN /\ topology.task.type \in {"master", "worker"}
                      /\ HostsOf(topology.cluster["master"])
                            = <<env.distribution_hosts[1]>>
                      /\ topology.cluster[topology.task.type]
                            [topology.task.index + 1].host = env.current_host
        ELSE IF /\ env.additional_framework_parameters[
                       "sagemaker_multi_worker_mirrored_strategy_enabled"]
                /\ env.current_instance_group \in env.distribution_instance_groups
        THEN env_vars =
               {[name |-> "TF_CONFIG",
                 value |-> [json |->
                   [status |-> "ok",
                    cluster |-> [r \in {"worker"} |->
                        [i \in DOMAIN env.distribution_hosts |->
                            [host |-> env.distribution_hosts[i], port |-> 8890]]],
                    environment |-> "cloud",
                    task |-> [index |->
                                Position(env.distribution_hosts, env.current_host) - 1,
                              type |-> "worker"]]]]}
        ELSE env_vars = {}

C13_Witness ==
    /\ PsFlagAndHosts /\ worker = "running"
    /\ env.current_host # env.distribution_hosts[1]
    /\ \E v \in env_vars : v.value.json.task.type = "worker"

\* C14: the parameter-server process launched by _run_ps is bound to the
\* cluster computed by the topology builder, that cluster has a "ps" role, and
\* its task index is the position of the current host in the cluster's "ps"
\* list, also when the distribution hosts differ from the full host list.
C14_PsProcessBinding ==
    (pc # "idle" /\ ps_process.state = "running") =>
        /\ ps_process.cluster = tf_config.cluster
        /\ ps_process.job_name = "ps"
        /\ "ps" \in DOMAIN ps_process.cluster
        /\ \E i \in DOMAIN ps_process.cluster["ps"] :
              /\ ps_process.cluster["ps"][i].host = env.current_host
              /\ ps_process.task_index = i - 1

\* C17: train reaches the parameter-server run phase only with a parameter-
\* server topology built in the setup phase, and launches neither the
\* parameter-server nor the worker process without a computed topology, for
\* every combination of flags, host count and instance-group membership.
C17_TopologyBeforePsRun ==
    (pc # "idle" /\ PsFlagAndHosts) =>
        /\ pc = "run" => (tf_config.status = "ok" /\ "cluster" \in DOMAIN tf_config)
        /\ raised # "UnboundLocalError"
        /\ (ps_process.state = "running" \/ worker # "none")
              => tf_config.status = "ok"

\* C18: with the parameter-server strategy the master of train is the master
\* of the built topology: a host whose worker completed skips the wait for the
\* master exactly when its task type is "master", and the host that is probed
\* is the one listed under the "master" role.
C18_MasterAgreesWithTopology ==
    (pc # "idle" /\ PsFlagAndHosts /\ worker = "completed"
        /\ pc \in {"probe", "sleep", "returned"}) =>
        /\ (probe_target = NoTarget) <=> (tf_config.task.type = "master")
        /\ probe_target # NoTarget =>
              probe_target.host = tf_config.cluster["master"][1].host

\* the port that the builder just called gives to a role
RolePort(role) ==
    IF called = "mwms" THEN MWMS_PORT
    ELSE IF role = "ps" THEN PS_PORT ELSE DEFAULT_PORT

\* the topology the builder just called returns for another current host
TopologyFor(cur) ==
    IF called = "mwms" THEN build_tf_config_for_mwms(hosts, cur)
    ELSE build_tf_config_for_ps(hosts, cur, ps_task)

\* C19: every topology a builder returns points at the current host itself:
\* cluster[task.type] holds at position task.index the current host's address
\* with the port of that role; for a fixed host list the cluster is the same
\* for every current host, and the non-ps tasks of distinct hosts differ.
C19_TopologyPointsAtSelf ==
    (called # "none" /\ result.status = "ok") =>
        /\ result.task.type \in DOMAIN result.cluster
        /\ (result.task.index + 1) \in DOMAIN result.cluster[result.task.type]
        /\ result.cluster[result.task.type][result.task.index + 1] =
              [host |-> current_host, port |-> RolePort(result.task.type)]
        /\ \A other \in Range(hosts) :
              /\ TopologyFor(other).status = "ok"
              /\ TopologyFor(other).cluster = result.cluster
              /\ (other # current_host /\ result.task.type # "ps")
                    => TopologyFor(other).task # result.task

C19_Witness ==
    /\ called = "ps" /\ ~ps_task /\ Len(hosts) = 3 /\ current_host = hosts[3]
    /\ result.status = "ok" /\ result.task = [index |-> 1, type |-> "worker"]
    /\ result.cluster["worker"][2].host = current_host

\* ---- _log_model_missing_warning (lines 224-256) ---------------------------
\* names are sequences of characters, so that the substring test on file names
\* and str.isdigit on directory names are computed, not assumed
MaxSubdirs == 2
MaxFiles == 2

Digits == {"0", "1", "2", "3", "4", "5", "6", "7", "8", "9"}
SAVED_MODEL_PB == <<"s", "a", "v", "e", "d", "_", "m", "o", "d", "e", "l", ".", "p", "b">>
SAVED_MODEL_PBTXT == SAVED_MODEL_PB \o <<"t", "x", "t">>
\* last component of MODEL_DIR = "/opt/ml/model"
MODEL_DIR_NAME == <<"m", "o", "d", "e", "l">>

FileNames ==
    {SAVED_MODEL_PB, SAVED_MODEL_PBTXT,
     SAVED_MODEL_PB \o <<".", "b", "a", "k">>,
     <<"o", "l", "d", "_">> \o SAVED_MODEL_PB,
     <<"m", "o", "d", "e", "l", ".", "c", "k", "p", "t">>}
DirNames == {<<"1">>, <<"0", "2">>, <<"v", "1">>}
FileSets == {fs \in SUBSET FileNames : Cardinality(fs) <= MaxFiles}

\* pattern in f, for two strings
contains(f, pattern) ==
    \E i \in 0..(Len(f) - Len(pattern)) : SubSeq(f, i + 1, i + Len(pattern)) = pattern

\* str.isdigit(name): at least one character and all of them digits
isdigit(name) == name # <<>> /\ \A i \in DOMAIN name : name[i] \in Digits

\* the directories that lie on the way from the top to directory i, i included
RECURSIVE AncestorsOrSelf(_, _)
AncestorsOrSelf(parents, i) ==
    IF i = 0 THEN {} ELSE {i} \cup AncestorsOrSelf(parents, parents[i])

\* os.walk(model_dir), top-down: directory 1 is model_dir itself, and every
\* other directory follows its parent and the subtrees of its earlier siblings
WalkOrders(n) ==
    {parents \in [1..n -> 0..(n - 1)] :
        /\ parents[1] = 0
        /\ \A i \in 2..n : parents[i] \in AncestorsOrSelf(parents, i - 1)}

Tree(parents, names, files) ==
    [i \in DOMAIN parents |->
        [parent |-> parents[i],
         name |-> IF i = 1 THEN MODEL_DIR_NAME ELSE names[i],
         filenames |-> files[i]]]

\* two directories of one parent have different names
WellNamed(t) ==
    \A i, j \in DOMAIN t :
        (i # j /\ t[i].parent = t[j].parent) => t[i].name # t[j].name

\* os.path.split(dirpath)[1] for the directory os.walk yields at position i
direct_parent_dir(t, i) == t[i].name

Warning(kind, about) == [kind |-> kind, about |-> about]

\* main, line 282: train has returned and the check is about to walk MODEL_DIR
ModelDirInit ==
    /\ \E n \in 1..(MaxSubdirs + 1) :
          \E parents \in WalkOrders(n), names \in [2..n -> DirNames],
             files \in [1..n -> FileSets] :
             /\ tree = Tree(parents, names, files)
             /\ WellNamed(tree)
    /\ walk_pos = 1
    /\ file_exists = FALSE /\ pb_file_exists = FALSE
    /\ warnings = <<>>
    /\ exit_status = "pending"
    /\ TopoIdle /\ TrainIdle /\ WaitIdle /\ ClusterIdle

\* line 231
is_saved_model_file(f) == contains(f, SAVED_MODEL_PB) \/ contains(f, SAVED_MODEL_PBTXT)

\* lines 227-240: one turn of the loop over os.walk, all files of the directory
WalkDir ==
    /\ exit_status = "pending"
    /\ walk_pos \in DOMAIN tree
    /\ LET filenames == tree[walk_pos].filenames
           found == {f \in filenames : is_saved_model_file(f)}
           name == direct_parent_dir(tree, walk_pos)
       IN /\ file_exists' = (file_exists \/ filenames # {})
          /\ pb_file_exists' = (pb_file_exists \/ found # {})
          /\ warnings' =
                IF ~isdigit(name)
                THEN warnings \o [k \in 1..Cardinality(found) |->
                                     Warning("not_servable_directory_name", name)]
                ELSE warnings
    /\ walk_pos' = walk_pos + 1
    /\ UNCHANGED <<tree, exit_status, topo_vars, train_vars, wait_vars, cluster_vars>>

\* lines 242-256, and the return to main, which ends normally
LogSummary ==
    /\ exit_status = "pending"
    /\ walk_pos = Len(tree) + 1
    /\ warnings' =
          IF ~file_exists THEN Append(warnings, Warning("no_model_artifact", <<>>))
          ELSE IF ~pb_file_exists
               THEN Append(warnings, Warning("not_servable_structure", <<>>))
               ELSE warnings
    /\ exit_status' = "success"
    /\ UNCHANGED <<tree, walk_pos, file_exists, pb_file_exists,
                   topo_vars, train_vars, wait_vars, cluster_vars>>

ModelDirNext == WalkDir \/ LogSummary

SpecModelDir == ModelDirInit /\ [][ModelDirNext]_vars

\* the files of the tree named saved_model.pb or saved_model.pbtxt, with the
\* directory that holds them
SavedModelFiles ==
    {<<i, f>> \in (DOMAIN tree) \X {SAVED_MODEL_PB, SAVED_MODEL_PBTXT} :
        f \in tree[i].filenames}
TreeHasFile == \E i \in DOMAIN tree : tree[i].filenames # {}
Warned(kind) == \E k \in DOMAIN warnings : warnings[k].kind = kind

\* C15: the model-directory check never raises and leaves the job's outcome
\* alone; it warns "no model artifact" exactly when the tree holds no file,
\* warns "not servable" for each saved_model.pb / saved_model.pbtxt file in a
\* directory with a non-numeric name and when files exist but none of them is a
\* saved-model file, and is silent when the only saved-model files lie in
\* numerically named directories.
C15_ModelDirAdvisory ==
    exit_status = "success" =>
        /\ Warned("no_model_artifact") <=> ~TreeHasFile
        /\ \A p \in SavedModelFiles :
              ~isdigit(tree[p[1]].name) =>
                 \E k \in DOMAIN warnings :
                    warnings[k] = Warning("not_servable_directory_name", tree[p[1]].name)
        /\ (TreeHasFile /\ SavedModelFiles = {}) =>
              (Warned("not_servable_structure") \/ Warned("not_servable_directory_name"))
        /\ (SavedModelFiles # {} /\ \A p \in SavedModelFiles : isdigit(tree[p[1]].name))
              => warnings = <<>>

\* ---- train on every host of one job, parameter-server strategy -------------
\* one instance group, so env.distribution_hosts = env.hosts on every host
ClusterInit ==
    /\ \E n \in 2..MaxHosts : cluster_hosts = [i \in 1..n |-> i]
    /\ host_pc = [h \in Range(cluster_hosts) |-> "start"]
    /\ host_tf_config = [h \in Range(cluster_hosts) |-> [status |-> "unbound"]]
    /\ ps_running = [h \in Range(cluster_hosts) |-> FALSE]
    /\ training = [h \in Range(cluster_hosts) |-> "none"]
    /\ TopoIdle /\ TrainIdle /\ WaitIdle /\ DirIdle

\* lines 165-200 on host h: the topology is built, _run_ps starts the parameter
\* server and _run_worker starts the entry point, which train then waits for
HostLaunch(h) ==
    /\ h \in Range(cluster_hosts)
    /\ host_pc[h] = "start"
    /\ LET built == build_tf_config_for_ps(cluster_hosts, h, FALSE)
       IN /\ built.status = "ok"
          /\ server_def_in_cluster(built.cluster, "ps", list_index(cluster_hosts, h))
          /\ host_tf_config' = [host_tf_config EXCEPT ![h] = built]
    /\ ps_running' = [ps_running EXCEPT ![h] = TRUE]
    /\ training' = [training EXCEPT ![h] = "starting"]
    /\ host_pc' = [host_pc EXCEPT ![h] = "worker"]
    /\ UNCHANGED <<cluster_hosts, topo_vars, train_vars, wait_vars, dir_vars>>

\* the entry point of host h opens the port of its task (2222)
TrainingListens(h) ==
    /\ h \in Range(cluster_hosts)
    /\ training[h] = "starting"
    /\ training' = [training EXCEPT ![h] = "listening"]
    /\ UNCHANGED <<cluster_hosts, host_pc, host_tf_config, ps_running,
                   topo_vars, train_vars, wait_vars, dir_vars>>

\* lines 137-143 on host h: entry_point.run returns when the entry point ended
\* well and raises when it failed; in both cases its port is closed
TrainingExits(h) ==
    /\ h \in Range(cluster_hosts)
    /\ host_pc[h] = "worker"
    /\ training[h] \in {"starting", "listening"}
    /\ \E ended_well \in BOOLEAN :
         /\ training' = [training EXCEPT ![h] = IF ended_well THEN "exited" ELSE "failed"]
         /\ host_pc' = [host_pc EXCEPT ![h] = IF ended_well THEN "after_worker" ELSE "raised"]
    /\ UNCHANGED <<cluster_hosts, host_tf_config, ps_running,
                   topo_vars, train_vars, wait_vars, dir_vars>>

\* lines 202-203 on host h
HostAfterWorker(h) ==
    /\ h \in Range(cluster_hosts)
    /\ host_pc[h] = "after_worker"
    /\ host_pc' = [host_pc EXCEPT ![h] =
                      IF is_host_master(cluster_hosts, h) THEN "returned" ELSE "probe"]
    /\ UNCHANGED <<cluster_hosts, host_tf_config, ps_running, training,
                   topo_vars, train_vars, wait_vars, dir_vars>>

\* lines 147-156 on host h: curl env.hosts[0]:2222 connects exactly when the
\* entry point of the first host listens
HostProbe(h) ==
    /\ h \in Range(cluster_hosts)
    /\ host_pc[h] = "probe"
    /\ host_pc' = [host_pc EXCEPT ![h] =
                      IF training[cluster_hosts[1]] = "listening" THEN "sleep"
                      ELSE "returned"]
    /\ UNCHANGED <<cluster_hosts, host_tf_config, ps_running, training,
                   topo_vars, train_vars, wait_vars, dir_vars>>

\* line 153 on host h
HostSleep(h) ==
    /\ h \in Range(cluster_hosts)
    /\ host_pc[h] = "sleep"
    /\ host_pc' = [host_pc EXCEPT ![h] = "probe"]
    /\ UNCHANGED <<cluster_hosts, host_tf_config, ps_running, training,
                   topo_vars, train_vars, wait_vars, dir_vars>>

ClusterNext ==
    \/ \E h \in HostNames : HostLaunch(h)
    \/ \E h \in HostNames : TrainingListens(h)
    \/ \E h \in HostNames : TrainingExits(h)
    \/ \E h \in HostNames : HostAfterWorker(h)
    \/ \E h \in HostNames : HostProbe(h)
    \/ \E h \in HostNames : HostSleep(h)

SpecCluster == ClusterInit /\ [][ClusterNext]_vars

\* train on a host keeps running, and so does a poll loop
FairSpecCluster ==
    /\ SpecCluster
    /\ \A h \in HostNames :
          WF_vars(HostAfterWorker(h)) /\ WF_vars(HostProbe(h)) /\ WF_vars(HostSleep(h))

MasterTrainingExited == training[cluster_hosts[1]] \in {"exited", "failed"}
WaitedForMaster(h) ==
    /\ h \in Range(cluster_hosts) /\ ~is_host_master(cluster_hosts, h)
    /\ training[h] = "exited" /\ host_pc[h] = "returned"

\* C16: with every host running train under the parameter-server strategy and
\* any interleaving, the wait of a non-master host returns only after the
\* master's training process has exited, never while it still runs or has not
\* yet started listening.
C16_ReturnOnlyAfterMasterExit ==
    cluster_hosts # <<>> =>
        \A h \in HostNames : WaitedForMaster(h) => MasterTrainingExited

\* the other half of C16: once the master's training process has exited, a
\* non-master host whose worker has completed returns from train
C16_EventuallyReturns ==
    \A h \in HostNames :
        (/\ h \in Range(cluster_hosts) /\ MasterTrainingExited
         /\ training[h] = "exited")
           ~> (h \in Range(cluster_hosts) /\ host_pc[h] = "returned")

====
